---- MODULE Spec2Model ----
(***************************************************************************)
(* A model of the RandomBlueTint layers of the guide "Custom Image         *)
(* Augmentations with BaseImageAugmentationLayer": the layer's             *)
(* constructor, its per-sample methods (get_random_transformation,         *)
(* augment_image, augment_label, augment_bounding_boxes) and the call of   *)
(* the layer on unbatched and batched inputs (specification Spec); and of  *)
(* the preprocessing pipelines of the guide "CutMix, MixUp, and            *)
(* RandAugment image augmentation with KerasCV" (specification Notebook).  *)
(*                                                                         *)
(* Tensor values are exact rationals <<n, d>>; a zero denominator stands   *)
(* for the non-finite floats (1/0 = +inf, -1/0 = -inf, 0/0 = nan).         *)
(***************************************************************************)
EXTENDS Integers, Sequences, FiniteSets, TLC

VARIABLES
    ctor,      \* arguments of the latest constructor call, or Nothing
    layer,     \* the constructed layer object, or Nothing
    err,       \* error raised by the latest operation, "none" if it returned
    inputs,    \* the caller's argument of the latest layer call, or Nothing
    outputs,   \* value returned by the latest layer call, or Nothing
    trace,     \* per sample of the latest call: the method calls made for it
    dispatch,  \* the invocations the latest call made to augment its input
    stream,    \* the values the random generator gave the latest call, in order
    given,     \* the value the caller passed to the latest call, as it was then
    cell,          \* the notebook cell or statement that ran last
    policy,        \* what RandAugment.get_standard_policy returned
    layers,        \* the notebook's variable layers
    pipeline,      \* the notebook's variable pipeline
    train_dataset, \* the notebook's variable train_dataset: its stages in order
    test_dataset,  \* the notebook's variable test_dataset, likewise, or None
    calls          \* per parallel call of the mapped function: its frame

layerVars == <<ctor, layer, err, inputs, outputs, trace, dispatch, stream, given>>

notebookVars == <<cell, policy, layers, pipeline, train_dataset, test_dataset, calls>>

vars == <<ctor, layer, err, inputs, outputs, trace, dispatch, stream, given,
          cell, policy, layers, pipeline, train_dataset, test_dataset, calls>>

\* Python's None: an absent tensor or number, and an absent object
None == <<>>

Nothing == [class |-> "NoneType"]

(***************************************************************************)
(* Bounds of the model.                                                    *)
(***************************************************************************)
MaxBatch == 3

(***************************************************************************)
(* Rational arithmetic with IEEE non-finite values.                        *)
(***************************************************************************)
Abs(x) == IF x < 0 THEN -x ELSE x

Sign(x) == IF x < 0 THEN -1 ELSE IF x > 0 THEN 1 ELSE 0

RECURSIVE GCD(_, _)
GCD(a, b) == IF b = 0 THEN a ELSE GCD(b, a % b)

Rat(n, d) ==
    IF d = 0 THEN <<Sign(n), 0>>
    ELSE LET g == GCD(Abs(n), Abs(d))
             s == Sign(d)
         IN  <<(s * n) \div g, (s * d) \div g>>

R(n) == <<n, 1>>

IsFinite(x) == x[2] # 0

IsNaN(x) == x = <<0, 0>>

NaN == <<0, 0>>

RAdd(x, y) ==
    IF IsFinite(x) /\ IsFinite(y) THEN Rat(x[1] * y[2] + y[1] * x[2], x[2] * y[2])
    ELSE IF IsNaN(x) \/ IsNaN(y) THEN NaN
    ELSE IF IsFinite(x) THEN y
    ELSE IF IsFinite(y) THEN x
    ELSE IF x = y THEN x ELSE NaN

RNeg(x) == <<-x[1], x[2]>>

RSub(x, y) == RAdd(x, RNeg(y))

RMul(x, y) == Rat(x[1] * y[1], x[2] * y[2])

RDiv(x, y) ==
    IF IsFinite(y) /\ y[1] # 0 THEN Rat(x[1] * y[2], x[2] * y[1])
    ELSE IF IsFinite(y) THEN Rat(x[1], 0)
    ELSE IF IsFinite(x) /\ ~IsNaN(y) THEN R(0)
    ELSE NaN

\* x <= y; every comparison with nan is false
RLe(x, y) ==
    IF IsNaN(x) \/ IsNaN(y) THEN FALSE
    ELSE IF IsFinite(x) /\ IsFinite(y) THEN x[1] * y[2] <= y[1] * x[2]
    ELSE IF IsFinite(x) THEN y[1] > 0
    ELSE IF IsFinite(y) THEN x[1] < 0
    ELSE x[1] <= y[1]

RLt(x, y) == RLe(x, y) /\ x # y

\* tf.maximum / tf.minimum propagate nan
RMax(x, y) == IF IsNaN(x) \/ IsNaN(y) THEN NaN ELSE IF RLe(x, y) THEN y ELSE x

RMin(x, y) == IF IsNaN(x) \/ IsNaN(y) THEN NaN ELSE IF RLe(x, y) THEN x ELSE y


(***************************************************************************)
(* Tensors.  An image (H, W, C) is a sequence of rows, each a sequence of  *)
(* pixels, each a sequence of channel values; a plane (H, W) is a sequence *)
(* of rows of values.  A tensor argument carries its rank with it.         *)
(***************************************************************************)
Height(image) == Len(image)

Width(image) == Len(image[1])

Channels(image) == Len(image[1][1])

Shape(image) == <<Height(image), Width(image), Channels(image)>>

\* tf.unstack(image, axis=-1): the list of the image's channel planes
unstack(image) ==
    [c \in 1..Channels(image) |->
        [h \in 1..Height(image) |-> [w \in 1..Width(image) |-> image[h][w][c]]]]

\* tf.stack(planes, axis=-1): the image whose channel c is planes[c]
stack(planes) ==
    [h \in 1..Len(planes[1]) |->
        [w \in 1..Len(planes[1][1]) |-> [c \in 1..Len(planes) |-> planes[c][h][w]]]]

\* plane + k, elementwise (k broadcast)
plane_add(plane, k) ==
    [h \in 1..Len(plane) |-> [w \in 1..Len(plane[h]) |-> RAdd(plane[h][w], k)]]

\* tf.clip_by_value(plane, lo, hi) = minimum(maximum(plane, lo), hi)
clip_by_value(plane, lo, hi) ==
    [h \in 1..Len(plane) |->
        [w \in 1..Len(plane[h]) |-> RMin(RMax(plane[h][w], lo), hi)]]

\* the tinted channel put first instead of last
blue_first(others, blue) == <<blue>> \o others

\* the list [*others, blue] put back together
others_then(others, blue) == others \o <<blue>>

(***************************************************************************)
(* preprocessing_utils.transform_value_range: the linear map that takes    *)
(* original_range onto target_range, applied to every value of the image.  *)
(***************************************************************************)
rescale_value(v, original_range, target_range) ==
    RAdd(RMul(RDiv(RSub(v, R(original_range[1])),
                   RSub(R(original_range[2]), R(original_range[1]))),
              RSub(R(target_range[2]), R(target_range[1]))),
         R(target_range[1]))

transform_value_range(image, original_range, target_range) ==
    [h \in 1..Height(image) |->
        [w \in 1..Width(image) |->
            [c \in 1..Channels(image) |->
                rescale_value(image[h][w][c], original_range, target_range)]]]

\* the working range of the tint: augment_image computes in (0, 255)
CanonicalRange == <<0, 255>>

\* the first rescaling of augment_image: declared range -> (0, 255)
to_canonical(image, value_range) ==
    transform_value_range(image, value_range, CanonicalRange)

\* the second rescaling with its two ranges exchanged
from_canonical_swapped(image, value_range) ==
    transform_value_range(image, value_range, CanonicalRange)

\* the second rescaling of augment_image: (0, 255) -> declared range
from_canonical(image, value_range) ==
    transform_value_range(image, CanonicalRange, value_range)


(***************************************************************************)
(* The FactorSampler API.  A sampler is a record; calling it draws one     *)
(* factor.  FactorValues(sampler) is the set of factors a call may return, *)
(* thinned to two points of a random sampler's interval.                   *)
(***************************************************************************)
ConstantFactorSampler(value) == [kind |-> "constant", value |-> value]

UniformFactorSampler(lower, upper) ==
    [kind |-> "uniform", lower |-> lower, upper |-> upper]

NormalFactorSampler(mean, stddev, min_value, max_value) ==
    [kind |-> "normal", mean |-> mean, stddev |-> stddev,
     min_value |-> min_value, max_value |-> max_value]

\* a tuple read like a single float: sampled between 0.0 and its upper value
parse_factor_from_zero(param) ==
    IF param.form = "sampler" THEN param.sampler
    ELSE IF param.upper = R(0) THEN ConstantFactorSampler(R(0))
    ELSE UniformFactorSampler(R(0), param.upper)

\* preprocessing_utils.parse_factor: a sampler is kept; a single float f
\* means the tuple (0.0, f); a tuple samples between its two values, and a
\* tuple of two identical floats always yields that float
parse_factor(param) ==
    IF param.form = "sampler" THEN param.sampler
    ELSE LET lower == IF param.form = "float" THEN R(0) ELSE param.lower
             upper == param.upper
         IN  IF lower = upper THEN ConstantFactorSampler(lower)
             ELSE UniformFactorSampler(lower, upper)

\* a normal sampler that does not clamp what it draws
FactorValues_unclamped(sampler) ==
    CASE sampler.kind = "constant" -> {sampler.value}
      [] sampler.kind = "uniform" ->
            {sampler.lower,
             RAdd(sampler.lower,
                  RMul(Rat(4, 5), RSub(sampler.upper, sampler.lower)))}
      [] sampler.kind = "normal" ->
            {RAdd(sampler.mean, RMul(R(z), sampler.stddev)) : z \in {-4, 1}}

\* a sampler that returns the value of its first draw ever after
FactorValues_memoized(sampler) ==
    CASE sampler.kind = "constant" -> {sampler.value}
      [] sampler.kind = "uniform" -> {sampler.lower}
      [] sampler.kind = "normal" ->
            {RMin(RMax(RAdd(sampler.mean, RMul(R(1), sampler.stddev)),
                       sampler.min_value), sampler.max_value)}

\* self.factor(): the values one call of the sampler may return
FactorValues(sampler) ==
    CASE sampler.kind = "constant" -> {sampler.value}
      [] sampler.kind = "uniform" ->
            {sampler.lower,
             RAdd(sampler.lower,
                  RMul(Rat(4, 5), RSub(sampler.upper, sampler.lower)))}
      [] sampler.kind = "normal" ->
            {RMin(RMax(RAdd(sampler.mean, RMul(R(z), sampler.stddev)),
                       sampler.min_value), sampler.max_value) : z \in {-4, 1}}

(***************************************************************************)
(* The four RandomBlueTint classes of the guide, in the order the guide    *)
(* defines them.  A layer object records which of them built it.           *)
(***************************************************************************)
Minimal == "RandomBlueTint (augment_image only)"

\* a layer that cannot be vectorized automatically, as GridMask cannot; its
\* augment_image is that of the first class
UnVectorizable == "UnVectorizable"

WithFactor == "RandomBlueTint (factor)"

WithTransformation == "RandomBlueTint (get_random_transformation)"

WithValueRange == "RandomBlueTint (value_range)"

Classes == {Minimal, WithFactor, WithTransformation, WithValueRange, UnVectorizable}

\* the classes whose constructor takes no factor
NoFactor == {Minimal, UnVectorizable}

\* __init__ of the four classes; auto_vectorize is the base class's flag, set
\* to False in the constructor as UnVectorizable does
RandomBlueTint(args) ==
    [class |-> args.class,
     value_range |-> IF args.class = WithValueRange THEN args.value_range ELSE None,
     factor |-> IF args.class \in NoFactor THEN Nothing ELSE parse_factor(args.factor),
     auto_vectorize |-> args.auto_vectorize]

\* a constructor that rejects a factor tuple of two identical floats
init_error_rejects_equal_tuple(args) ==
    IF /\ args.factor # Nothing
       /\ args.factor.form = "tuple"
       /\ args.factor.lower = args.factor.upper
    THEN "ConfigurationError" ELSE "none"

\* a constructor that rejects a value range without low < high
init_error_rejects_degenerate_range(args) ==
    IF args.value_range # None /\ args.value_range[1] >= args.value_range[2]
    THEN "ConfigurationError" ELSE "none"

\* the constructor raises nothing: it stores value_range as given
init_error(args) == "none"

\* does the class get its factor in get_random_transformation?
HasTransformation(l) == l.class \in {WithTransformation, WithValueRange}

\* the factors the layer may draw for one sample (None: it draws none)
SampleDraws(l) == IF l.class \in NoFactor THEN {None} ELSE FactorValues(l.factor)

\* get_random_transformation: the base class's default returns None
get_random_transformation(l, u) ==
    IF HasTransformation(l) THEN RMul(u, R(255)) ELSE None

\* the tint without its clip_by_value
blue_tint_unclipped(image, shift) ==
    CHOOSE result \in
        { stack(others_then(SubSeq(planes, 1, Len(planes) - 1), blue)) :
            <<planes, blue>> \in
                { <<ps, plane_add(ps[Len(ps)], shift)>> : ps \in {unstack(image)} } } : TRUE

\* a tint that clips to [0, 1]
blue_tint_clipped_to_unit(image, shift) ==
    CHOOSE result \in
        { stack(others_then(SubSeq(planes, 1, Len(planes) - 1), blue)) :
            <<planes, blue>> \in
                { <<ps, clip_by_value(plane_add(ps[Len(ps)], shift), R(0), R(1))>> :
                    ps \in {unstack(image)} } } : TRUE

\* tint: add shift to the last channel, clip it to [0, 255], keep the others
\*   [*others, blue] = tf.unstack(image, axis=-1)
\*   blue = tf.clip_by_value(blue + shift, 0.0, 255.0)
\*   return tf.stack([*others, blue], axis=-1)
blue_tint(image, shift) ==
    CHOOSE result \in
        { stack(others_then(SubSeq(planes, 1, Len(planes) - 1), blue)) :
            <<planes, blue>> \in
                { <<ps, clip_by_value(plane_add(ps[Len(ps)], shift), R(0), R(255))>> :
                    ps \in {unstack(image)} } } : TRUE

\* an augment_image that returns the tinted image on the (0, 255) scale
augment_image_value_range_not_rescaled_back(l, image, transformation) ==
    CHOOSE result \in
        { blue_tint(canonical, transformation) :
            canonical \in {to_canonical(image, l.value_range)} } : TRUE

\* an augment_image that tints the image as given and rescales afterwards
augment_image_value_range_tint_first(l, image, transformation) ==
    CHOOSE result \in
        { from_canonical(canonical, l.value_range) :
            canonical \in
                { to_canonical(tinted, l.value_range) :
                    tinted \in {blue_tint(image, transformation)} } } : TRUE

\* augment_image of the class with value_range: rescale to (0, 255), tint,
\* rescale back
augment_image_value_range(l, image, transformation) ==
    CHOOSE result \in
        { from_canonical(tinted, l.value_range) :
            tinted \in
                { blue_tint(canonical, transformation) :
                    canonical \in {to_canonical(image, l.value_range)} } } : TRUE

\* augment_image of the layer's class; u is the factor self.factor() returns
\* when the class calls it inside augment_image
augment_image(l, image, transformation, u) ==
    CASE l.class \in NoFactor -> blue_tint(image, R(100))
      [] l.class = WithFactor -> blue_tint(image, RMul(u, R(255)))
      [] l.class = WithTransformation -> blue_tint(image, transformation)
      [] l.class = WithValueRange -> augment_image_value_range(l, image, transformation)

OverridesLabel(l) == HasTransformation(l)

OverridesBoundingBoxes(l) == HasTransformation(l)

\* a label is a sequence of values; the scalar 2.0 is the sequence of that value
Scalar(v) == <<v>>

\* an augment_label whose threshold includes 100
augment_label_from_100(l, label, transformation) ==
    IF RLe(R(100), transformation) THEN Scalar(R(2)) ELSE label

\* augment_label: 2.0 when transformation > 100, else the label
augment_label(l, label, transformation) ==
    IF RLt(R(100), transformation) THEN Scalar(R(2)) ELSE label

\* an override that returns no boxes
augment_bounding_boxes_dropped(l, bounding_boxes, transformation) == <<>>

\* augment_bounding_boxes: the no-op override
augment_bounding_boxes(l, bounding_boxes, transformation) == bounding_boxes


(***************************************************************************)
(* BaseImageAugmentationLayer: the call of a layer.  An argument is a      *)
(* record [is_dict, rank, images, labels, bounding_boxes]: a bare image    *)
(* tensor has is_dict = FALSE and no targets; rank 3 is one unbatched      *)
(* sample (HWC), rank 4 a batch (BHWC), whose fields are sequences with    *)
(* one element per sample.                                                 *)
(***************************************************************************)
Sample(images, labels, bounding_boxes) ==
    [images |-> images, labels |-> labels, bounding_boxes |-> bounding_boxes]

NotCalled == <<"not called">>

\* the augment_* calls made for one sample, given the transformation argument
\* of each; a target whose method the class does not override is not supported
augment_with(l, sample, u, transformation, image_t, label_t, boxes_t) ==
    LET has_labels == sample.labels # None
        has_boxes  == sample.bounding_boxes # None
    IN  [result |->
            Sample(augment_image(l, sample.images, image_t, u),
                   IF has_labels /\ OverridesLabel(l)
                   THEN augment_label(l, sample.labels, label_t) ELSE None,
                   IF has_boxes /\ OverridesBoundingBoxes(l)
                   THEN augment_bounding_boxes(l, sample.bounding_boxes, boxes_t)
                   ELSE None),
         err |-> IF \/ has_labels /\ ~OverridesLabel(l)
                    \/ has_boxes /\ ~OverridesBoundingBoxes(l)
                 THEN "NotImplementedError" ELSE "none",
         tr |-> [drawn |-> IF u = None THEN <<>> ELSE <<u>>,
                 transformation |-> transformation,
                 image |-> image_t,
                 labels |-> IF has_labels /\ OverridesLabel(l)
                            THEN label_t ELSE NotCalled,
                 bounding_boxes |-> IF has_boxes /\ OverridesBoundingBoxes(l)
                                    THEN boxes_t ELSE NotCalled]]

\* a second, different draw of the sampler where it has one
other_draw(l, u) ==
    IF \E v \in SampleDraws(l) : v # u
    THEN CHOOSE v \in SampleDraws(l) : v # u ELSE u

\* the targets augmented with a transformation of their own
augment_sample_redrawn(l, sample, u) ==
    augment_with(l, sample, u, get_random_transformation(l, u),
                 get_random_transformation(l, u),
                 get_random_transformation(l, other_draw(l, u)),
                 get_random_transformation(l, other_draw(l, u)))

\* augmentation of one sample: one transformation is drawn and handed to the
\* method of every field the sample has
augment_sample(l, sample, u) ==
    augment_with(l, sample, u, get_random_transformation(l, u),
                 get_random_transformation(l, u),
                 get_random_transformation(l, u),
                 get_random_transformation(l, u))

\* sample i of a batch argument
SampleAt(x, i) ==
    Sample(x.images[i],
           IF x.labels = None THEN None ELSE x.labels[i],
           IF x.bounding_boxes = None THEN None ELSE x.bounding_boxes[i])

BatchSize(x) == Len(x.images)

\* tf.vectorized_map(augment, inputs): every sample at once
vectorized_map(l, x, us) ==
    [i \in 1..BatchSize(x) |-> augment_sample(l, SampleAt(x, i), us[i])]

\* a loop that puts each result in front of the earlier ones
RECURSIVE map_fn_prepending_from(_, _, _, _, _)
map_fn_prepending_from(l, x, us, i, acc) ==
    IF i > BatchSize(x) THEN acc
    ELSE map_fn_prepending_from(l, x, us, i + 1,
             <<augment_sample(l, SampleAt(x, i), us[i])>> \o acc)

map_fn_prepending(l, x, us) == map_fn_prepending_from(l, x, us, 1, <<>>)

\* tf.map_fn(augment, inputs): the samples one after the other
RECURSIVE map_fn_from(_, _, _, _, _)
map_fn_from(l, x, us, i, acc) ==
    IF i > BatchSize(x) THEN acc
    ELSE map_fn_from(l, x, us, i + 1,
                     Append(acc, augment_sample(l, SampleAt(x, i), us[i])))

\* a loop that draws once, before its first iteration
map_fn_one_draw(l, x, us) ==
    map_fn_from(l, x, [i \in 1..BatchSize(x) |-> us[1]], 1, <<>>)

map_fn(l, x, us) == map_fn_from(l, x, us, 1, <<>>)

\* can the layer's per-sample function be vectorized automatically?
Vectorizable(l) == l.class # UnVectorizable

\* one invocation made to augment a batch: what was invoked, on which samples
Invocation(fn, samples) == [fn |-> fn, samples |-> samples]

\* a dispatch that vectorizes whatever the layer
batch_augment_unchecked(l, x, us) ==
    IF l.auto_vectorize
    THEN [invoked |-> <<Invocation("vectorized_map", [i \in 1..BatchSize(x) |-> i])>>,
          err |-> "none",
          rs |-> vectorized_map(l, x, us)]
    ELSE [invoked |-> [i \in 1..BatchSize(x) |-> Invocation("augment", <<i>>)],
          err |-> "none",
          rs |-> map_fn(l, x, us)]

\* automatic vectorization, one invocation on the whole batch, unless the
\* layer set auto_vectorize = False: then a loop, one invocation per sample.
\* Invoking a layer that cannot be vectorized automatically is an error.
batch_augment(l, x, us) ==
    IF l.auto_vectorize
    THEN [invoked |-> <<Invocation("vectorized_map", [i \in 1..BatchSize(x) |-> i])>>,
          err |-> IF Vectorizable(l) THEN "none" ELSE "IncompatibleTransformError",
          rs |-> IF Vectorizable(l) THEN vectorized_map(l, x, us) ELSE <<>>]
    ELSE [invoked |-> [i \in 1..BatchSize(x) |-> Invocation("augment", <<i>>)],
          err |-> "none",
          rs |-> map_fn(l, x, us)]

FirstError(rs) ==
    IF \E i \in 1..Len(rs) : rs[i].err # "none"
    THEN rs[CHOOSE i \in 1..Len(rs) :
                /\ rs[i].err # "none"
                /\ \A j \in 1..(i - 1) : rs[j].err = "none"].err
    ELSE "none"

\* the batch put together with the samples in reverse order
restack_reversed(x, rs) ==
    [is_dict |-> x.is_dict, rank |-> x.rank,
     images |-> [i \in 1..Len(rs) |-> rs[Len(rs) + 1 - i].result.images],
     labels |-> IF x.labels = None THEN None
                ELSE [i \in 1..Len(rs) |-> rs[Len(rs) + 1 - i].result.labels],
     bounding_boxes |-> IF x.bounding_boxes = None THEN None
                        ELSE [i \in 1..Len(rs) |->
                                 rs[Len(rs) + 1 - i].result.bounding_boxes]]

\* the batch put together again from the per-sample results
restack(x, rs) ==
    [is_dict |-> x.is_dict, rank |-> x.rank,
     images |-> [i \in 1..Len(rs) |-> rs[i].result.images],
     labels |-> IF x.labels = None THEN None
                ELSE [i \in 1..Len(rs) |-> rs[i].result.labels],
     bounding_boxes |-> IF x.bounding_boxes = None THEN None
                        ELSE [i \in 1..Len(rs) |-> rs[i].result.bounding_boxes]]

\* what the call returns for an unbatched input, given its sample's result
unbatched_return(x, r) ==
    [out |-> IF r.err # "none" THEN Nothing
             ELSE [is_dict |-> x.is_dict, rank |-> x.rank,
                   images |-> r.result.images,
                   labels |-> r.result.labels,
                   bounding_boxes |-> r.result.bounding_boxes],
     err |-> r.err,
     trace |-> <<r.tr>>]

\* what the call returns for a batch, given its samples' results
batched_return(x, rs) ==
    [out |-> IF FirstError(rs) # "none" THEN Nothing ELSE restack(x, rs),
     err |-> FirstError(rs),
     trace |-> [i \in 1..Len(rs) |-> rs[i].tr]]

\* do the fields of a batch all have the leading dimension of its images?
same_leading_dimension(x) ==
    \/ x.rank = 3
    \/ /\ x.labels = None \/ Len(x.labels) = Len(x.images)
       /\ x.bounding_boxes = None \/ Len(x.bounding_boxes) = Len(x.images)

\* a call that returned, with the invocations it made
returned(ret, invoked) ==
    [out |-> ret.out, err |-> ret.err, trace |-> ret.trace, dispatch |-> invoked]

\* a call that raised before any sample was augmented
raised(error, invoked) ==
    [out |-> Nothing, err |-> error, trace |-> <<>>, dispatch |-> invoked]

\* an unbatched input is augmented as one sample and returned unbatched, a
\* batched input sample by sample and returned as a batch
call_checked(l, x, us) ==
    IF x.rank = 3
    THEN CHOOSE ret \in
            { returned(unbatched_return(x, r), <<Invocation("augment", <<1>>)>>) :
                r \in {augment_sample(l, Sample(x.images, x.labels, x.bounding_boxes),
                                      us[1])} } : TRUE
    ELSE CHOOSE ret \in
            { IF b.err # "none" THEN raised(b.err, b.invoked)
              ELSE returned(batched_return(x, b.rs), b.invoked) :
                b \in {batch_augment(l, x, us)} } : TRUE

\* the batch cut to its first n samples
truncated(x, n) ==
    [is_dict |-> x.is_dict, rank |-> x.rank,
     images |-> SubSeq(x.images, 1, n),
     labels |-> IF x.labels = None THEN None ELSE SubSeq(x.labels, 1, n),
     bounding_boxes |-> IF x.bounding_boxes = None THEN None
                        ELSE SubSeq(x.bounding_boxes, 1, n)]

\* a call that augments as many samples as every field has
call_truncating(l, x, us) ==
    IF same_leading_dimension(x) THEN call_checked(l, x, us)
    ELSE call_checked(l, truncated(x, Len(x.labels)), us)

\* layer(x): a batch whose fields differ in their leading dimension is refused
call(l, x, us) ==
    IF ~same_leading_dimension(x) THEN raised("ShapeMismatchError", <<>>)
    ELSE call_checked(l, x, us)

\* a call that writes its result into the tensors it was given
argument_after_call_in_place(x, ret) == IF ret.out # Nothing THEN ret.out ELSE x

\* the caller's argument after the call: tf.unstack, tf.stack and
\* tf.clip_by_value make new tensors, the argument is left as it was
argument_after_call(x, ret) == x

\* a layer that keeps the canonical range once it has converted an image to it
after_call_caching(l, x) ==
    IF l.class = WithValueRange THEN [l EXCEPT !.value_range = CanonicalRange] ELSE l

\* the layer object after a call: no method assigns an attribute of self
after_call(l, x) == l

(***************************************************************************)
(* The inputs of the model: constructor arguments and call arguments.      *)
(***************************************************************************)
\* factor arguments: a single float, tuples, and a sampler object
FactorArgs ==
    { [form |-> "float", upper |-> Rat(1, 2)],
      [form |-> "tuple", lower |-> Rat(3, 5), upper |-> Rat(3, 5)],
      [form |-> "tuple", lower |-> Rat(1, 10), upper |-> Rat(1, 10)],
      [form |-> "tuple", lower |-> Rat(1, 10), upper |-> Rat(3, 5)],
      [form |-> "tuple", lower |-> Rat(20, 51), upper |-> Rat(20, 51)],
      [form |-> "sampler",
       sampler |-> NormalFactorSampler(Rat(3, 10), Rat(1, 10), R(0), R(1))] }

\* value_range arguments: the three ranges the guide names, and a degenerate one
GuideRanges == { <<0, 255>>, <<0, 1>>, <<-1, 1>> }

ValueRangeArgs == GuideRanges \cup { <<0, 0>> }

CtorArgs ==
    { [class |-> c, factor |-> f, value_range |-> r, auto_vectorize |-> av] :
        c \in Classes, f \in FactorArgs \cup {Nothing},
        r \in ValueRangeArgs \cup {None}, av \in BOOLEAN }

\* the arguments each class's __init__ takes
WellFormed(args) ==
    /\ (args.factor = Nothing) <=> (args.class \in NoFactor)
    /\ (args.value_range = None) <=> (args.class # WithValueRange)

\* pixel values, on the (0, 255) scale, that the test images are made of
PixelLevels == <<0, 100, 200, 255>>

\* the image of pattern p and the given shape with values in range r
Image(p, shape, r) ==
    [h \in 1..shape[1] |->
        [w \in 1..shape[2] |->
            [c \in 1..shape[3] |->
                rescale_value(R(PixelLevels[((p + h + 2 * w + 3 * c) % 4) + 1]),
                              CanonicalRange, r)]]]

\* the one-hot label and the boxes that go with pattern p
Label(p) == [k \in 1..2 |-> IF k = ((p % 2) + 1) THEN R(1) ELSE R(0)]

Boxes(p) == << <<0, 0, p, p>> >>

TargetKinds == {"tensor", "labels", "targets"}

\* the datasets calls draw from: the value range of the images, their shape
\* and the pattern of the first image
Datasets ==
    { [range |-> <<0, 255>>, shape |-> <<4, 4, 3>>, first |-> 1],
      [range |-> <<0, 1>>,   shape |-> <<1, 2, 3>>, first |-> 2],
      [range |-> <<-1, 1>>,  shape |-> <<1, 1, 1>>, first |-> 3] }

\* pattern of sample i of a batch of dataset d: consecutive samples differ
PatternAt(d, i) == ((d.first + i) % Len(PixelLevels)) + 1

UnbatchedArg(kind, d) ==
    [is_dict |-> kind # "tensor", rank |-> 3,
     images |-> Image(d.first, d.shape, d.range),
     labels |-> IF kind = "tensor" THEN None ELSE Label(d.first),
     bounding_boxes |-> IF kind = "targets" THEN Boxes(d.first) ELSE None]

BatchedArg(kind, d, n) ==
    [is_dict |-> kind # "tensor", rank |-> 4,
     images |-> [i \in 1..n |-> Image(PatternAt(d, i), d.shape, d.range)],
     labels |-> IF kind = "tensor" THEN None
                ELSE [i \in 1..n |-> Label(PatternAt(d, i))],
     bounding_boxes |-> IF kind = "targets"
                        THEN [i \in 1..n |-> Boxes(PatternAt(d, i))] ELSE None]

\* a batch of n images whose targets are those of its first n - 1 samples
MismatchedArg(kind, d, n) ==
    [is_dict |-> TRUE, rank |-> 4,
     images |-> [i \in 1..n |-> Image(PatternAt(d, i), d.shape, d.range)],
     labels |-> [i \in 1..(n - 1) |-> Label(PatternAt(d, i))],
     bounding_boxes |-> IF kind = "targets"
                        THEN [i \in 1..(n - 1) |-> Boxes(PatternAt(d, i))] ELSE None]

CallArgs ==
    { UnbatchedArg(k, d) : k \in TargetKinds, d \in Datasets }
    \cup
    UNION { { BatchedArg(k, d, n) : k \in TargetKinds, d \in Datasets }
            : n \in 1..MaxBatch }
    \cup
    UNION { { MismatchedArg(k, d, n) : k \in TargetKinds \ {"tensor"}, d \in Datasets }
            : n \in 2..MaxBatch }

NumSamples(x) == IF x.rank = 3 THEN 1 ELSE BatchSize(x)

(***************************************************************************)
(* The notebook "CutMix, MixUp, and RandAugment image augmentation with    *)
(* KerasCV".  A tensor is a record [id, ops]: the dataset's image or label *)
(* id and the augmentations applied to it so far, each with the random     *)
(* value drawn for it.  A dataset element is a batch                       *)
(* [images |-> ..., labels |-> ...] with one tensor per sample.            *)
(***************************************************************************)
RandomRotation == "RandomRotation"

GridMask == "GridMask"

Grayscale == "Grayscale"

AutoContrast == "AutoContrast"

Equalization == "Equalization"

\* prepare: tf.cast(image, tf.float32) and tf.one_hot(label, num_classes)
Tensor(k) == [id |-> k, ops |-> <<>>, dtype |-> "float32"]

\* prepare, then batch: the images and one-hot labels of the samples ids
Element(ids) ==
    [images |-> [i \in 1..Len(ids) |-> Tensor(ids[i])],
     labels |-> [i \in 1..Len(ids) |-> Tensor(ids[i])]]

\* the elements the parallel calls of a mapped function get, one each: a full
\* batch and the smaller last batch
Elements == << Element(<<1, 2>>), Element(<<3>>) >>

Workers == DOMAIN Elements

\* the elements of the test split the parallel calls get
TestElements == << Element(<<4, 5>>), Element(<<6>>) >>

\* a prepare_dataset that shuffles every split
load_dataset_shuffling(split) == <<"shuffle", "prepare", "batch">>

\* load_dataset(split): the stages of prepare_dataset
load_dataset(split) ==
    IF split = "train" THEN <<"shuffle", "prepare", "batch">>
    ELSE <<"prepare", "batch">>

\* dataset.map(fn, num_parallel_calls=AUTOTUNE)
map(dataset, fn) == Append(dataset, fn)

\* dataset.prefetch(AUTOTUNE)
prefetch(dataset) == Append(dataset, "prefetch")

\* tf.cast(images, dtype)
cast(images, dtype) == [i \in 1..Len(images) |-> [images[i] EXCEPT !.dtype = dtype]]

\* the tensor after a layer has augmented it with the value it drew
applied(t, name, draw) ==
    [t EXCEPT !.ops = Append(@, [layer |-> name, draw |-> draw])]

\* rand_augment(images): every image augmented with a draw of its own
rand_augment(images, d) ==
    [i \in 1..Len(images) |-> applied(images[i], "RandAugment", d[i])]

\* cut_mix(samples, training=True): images and labels of the batch are mixed
cut_mix(samples, d) ==
    [images |-> [i \in 1..Len(samples.images) |-> applied(samples.images[i], "CutMix", d)],
     labels |-> [i \in 1..Len(samples.labels) |-> applied(samples.labels[i], "CutMix", d)]]

\* mix_up(samples, training=True)
mix_up(samples, d) ==
    [images |-> [i \in 1..Len(samples.images) |-> applied(samples.images[i], "MixUp", d)],
     labels |-> [i \in 1..Len(samples.labels) |-> applied(samples.labels[i], "MixUp", d)]]

\* a filter that removes the first RandomRotation layer only
RECURSIVE without_first_rotation(_)
without_first_rotation(ls) ==
    IF ls = <<>> THEN <<>>
    ELSE IF Head(ls) = RandomRotation THEN Tail(ls)
    ELSE <<Head(ls)>> \o without_first_rotation(Tail(ls))

\* [layer for layer in layers if not isinstance(layer, RandomRotation)]
without_rotation(ls) == SelectSeq(ls, LAMBDA l : l # RandomRotation)

\* a list with GridMask put in front
grid_mask_first(ls) == <<GridMask>> \o ls

\* layers + [keras_cv.layers.GridMask()]
with_grid_mask(ls) == ls \o <<GridMask>>

RandomAugmentationPipeline(ls, n) == [layers |-> ls, augmentations_per_image |-> n]

\* the layers chosen one after the other applied to one image
RECURSIVE apply_chosen(_, _, _, _)
apply_chosen(p, t, choice, k) ==
    IF k > Len(choice) THEN t
    ELSE apply_chosen(p, applied(t, p.layers[choice[k]], choice[k]), choice, k + 1)

\* a pipeline that applies one layer more than augmentations_per_image
augment_once_more(p, t, choice) ==
    apply_chosen(p, apply_chosen(p, t, choice, 1), choice, Len(choice))

\* the pipeline on one image: a random layer is selected and applied,
\* augmentations_per_image times
augment(p, t, choice) == apply_chosen(p, t, choice, 1)

\* pipeline(images)
pipeline_call(p, images, d) ==
    [i \in 1..Len(images) |-> augment(p, images[i], d[i])]

\* the bodies of the functions the notebook maps over train_dataset, as the
\* assignments they make: the layer called and what is assigned
apply_rand_augment == << [layer |-> "rand_augment", target |-> "images"] >>

cut_mix_and_mix_up ==
    << [layer |-> "cut_mix", target |-> "samples"],
       [layer |-> "mix_up", target |-> "samples"] >>

apply_pipeline == << [layer |-> "pipeline", target |-> "images"] >>

\* images = tf.cast(inputs["images"], tf.float32); return images, labels
preprocess_for_model == << [layer |-> "cast", target |-> "tuple"] >>

\* the functions the notebook maps over batches
Functions ==
    {"apply_rand_augment", "cut_mix_and_mix_up", "apply_pipeline", "preprocess_for_model"}

Body(fn) ==
    CASE fn = "apply_rand_augment" -> apply_rand_augment
      [] fn = "cut_mix_and_mix_up" -> cut_mix_and_mix_up
      [] fn = "apply_pipeline" -> apply_pipeline
      [] fn = "preprocess_for_model" -> preprocess_for_model
      [] OTHER -> <<>>

\* the functions mapped over the batches of a dataset, in order
Mapped(dataset) == SelectSeq(dataset, LAMBDA stage : stage \in Functions)

\* what a batch of a dataset goes through: the bodies of the functions
\* mapped over it, one after the other
RECURSIVE Program(_)
Program(dataset) ==
    IF dataset = <<>> THEN <<>>
    ELSE Program(SubSeq(dataset, 1, Len(dataset) - 1)) \o Body(dataset[Len(dataset)])

\* the random values a layer may draw when called on a batch of n samples
LayerDraws(p, name, n) ==
    CASE name = "rand_augment" -> [1..n -> {1, 2}]
      [] name = "cut_mix" -> {1, 2}
      [] name = "mix_up" -> {1, 2}
      [] name = "pipeline" ->
            [1..n -> [1..p.augmentations_per_image -> 1..Len(p.layers)]]
      [] name = "cast" -> {0}

\* the right-hand side of an assignment
evaluate(p, stmt, samples, d) ==
    CASE stmt.layer = "rand_augment" -> rand_augment(samples.images, d)
      [] stmt.layer = "cut_mix" -> cut_mix(samples, d)
      [] stmt.layer = "mix_up" -> mix_up(samples, d)
      [] stmt.layer = "pipeline" -> pipeline_call(p, samples.images, d)
      [] stmt.layer = "cast" -> cast(samples.images, "float32")

\* an assignment to inputs["images"] that replaces the labels as well
assign_replacing_labels(stmt, samples, value) ==
    CASE stmt.target = "images" -> [images |-> value, labels |-> value]
      [] stmt.target = "tuple" -> <<value, samples.labels>>
      [] OTHER -> value

\* the assignment itself: inputs["images"] = value, or samples = value, or
\* images = value with the return of the tuple images, labels
assign(stmt, samples, value) ==
    CASE stmt.target = "images" -> [images |-> value, labels |-> samples.labels]
      [] stmt.target = "tuple" -> <<value, samples.labels>>
      [] OTHER -> value

\* what a function returns when nothing else runs, given the values drawn
RECURSIVE run_alone(_, _, _, _, _)
run_alone(p, body, samples, draws, k) ==
    IF k > Len(body) THEN samples
    ELSE run_alone(p, body,
                   assign(body[k], samples, evaluate(p, body[k], samples, draws[k])),
                   draws, k + 1)

\* a frame shared by all the calls
frame_shared(w) == 1

\* where a call keeps the value of an expression: in a frame of its own
frame(w) == w

Idle ==
    [fn |-> "none", split |-> "none", at |-> 0, phase |-> "idle",
     samples |-> Nothing, value |-> Nothing, draws |-> <<>>]

\* the notebook before its first augmentation cell
NotebookIdle ==
    /\ cell = "imports"
    /\ policy = None
    /\ layers = None
    /\ pipeline = Nothing
    /\ train_dataset = load_dataset("train")
    /\ test_dataset = None
    /\ calls = [w \in Workers |-> Idle]

\* no call of the mapped function is running
Quiescent == \A w \in Workers : calls[w].phase \in {"idle", "returned"}

\* a cell starts: the calls of the cell before are over
Run(from, to) ==
    /\ cell = from
    /\ Quiescent
    /\ cell' = to
    /\ calls' = [w \in Workers |-> Idle]

\* train_dataset = load_dataset().map(apply_rand_augment, ...)
MapRandAugment ==
    /\ Run("imports", "apply_rand_augment")
    /\ train_dataset' = map(load_dataset("train"), "apply_rand_augment")
    /\ UNCHANGED <<policy, layers, pipeline, test_dataset, layerVars>>

\* train_dataset = load_dataset().map(cut_mix_and_mix_up, ...)
MapCutMixAndMixUp ==
    /\ Run("apply_rand_augment", "cut_mix_and_mix_up")
    /\ train_dataset' = map(load_dataset("train"), "cut_mix_and_mix_up")
    /\ UNCHANGED <<policy, layers, pipeline, test_dataset, layerVars>>

\* the policies get_standard_policy may return
StandardPolicies ==
    { <<RandomRotation>>,
      <<AutoContrast>>,
      <<RandomRotation, AutoContrast, RandomRotation>>,
      <<AutoContrast, RandomRotation, Equalization>> }

\* layers = keras_cv.layers.RandAugment.get_standard_policy(...)
GetStandardPolicy ==
    /\ Run("cut_mix_and_mix_up", "get_standard_policy")
    /\ \E ls \in StandardPolicies :
        /\ policy' = ls
        /\ layers' = ls
    /\ UNCHANGED <<pipeline, train_dataset, test_dataset, layerVars>>

\* layers = [layer for layer in layers if not isinstance(layer, RandomRotation)]
FilterRotation ==
    /\ Run("get_standard_policy", "filter")
    /\ layers' = without_rotation(layers)
    /\ UNCHANGED <<policy, pipeline, train_dataset, test_dataset, layerVars>>

\* layers = layers + [keras_cv.layers.GridMask()]
AddGridMask ==
    /\ Run("filter", "add")
    /\ layers' = with_grid_mask(layers)
    /\ UNCHANGED <<policy, pipeline, train_dataset, test_dataset, layerVars>>

\* pipeline = RandomAugmentationPipeline(layers=layers, augmentations_per_image=3)
BuildPipeline ==
    /\ Run("add", "pipeline")
    /\ pipeline' = RandomAugmentationPipeline(layers, 3)
    /\ UNCHANGED <<policy, layers, train_dataset, test_dataset, layerVars>>

\* train_dataset = load_dataset().map(apply_pipeline, ...)
MapPipeline ==
    /\ Run("pipeline", "apply_pipeline")
    /\ train_dataset' = map(load_dataset("train"), "apply_pipeline")
    /\ UNCHANGED <<policy, layers, pipeline, test_dataset, layerVars>>

\* pipeline = RandomAugmentationPipeline(
\*     layers=[GridMask(), Grayscale(output_channels=3)], augmentations_per_image=1)
BuildSecondPipeline ==
    /\ Run("apply_pipeline", "second pipeline")
    /\ pipeline' = RandomAugmentationPipeline(<<GridMask, Grayscale>>, 1)
    /\ UNCHANGED <<policy, layers, train_dataset, test_dataset, layerVars>>

\* train_dataset = load_dataset().map(apply_pipeline, ...), again
MapSecondPipeline ==
    /\ Run("second pipeline", "apply_pipeline again")
    /\ train_dataset' = map(load_dataset("train"), "apply_pipeline")
    /\ UNCHANGED <<policy, layers, pipeline, test_dataset, layerVars>>

\* a training pipeline that maps cut_mix_and_mix_up before apply_rand_augment
MapTrainAugmentations_mix_first ==
    /\ Run("apply_pipeline again", "train augmentations")
    /\ train_dataset' = map(map(load_dataset("train"), "cut_mix_and_mix_up"),
                            "apply_rand_augment")
    /\ UNCHANGED <<policy, layers, pipeline, test_dataset, layerVars>>

\* train_dataset = (load_dataset().map(apply_rand_augment, ...)
\*                                .map(cut_mix_and_mix_up, ...))
MapTrainAugmentations ==
    /\ Run("apply_pipeline again", "train augmentations")
    /\ train_dataset' = map(map(load_dataset("train"), "apply_rand_augment"),
                            "cut_mix_and_mix_up")
    /\ UNCHANGED <<policy, layers, pipeline, test_dataset, layerVars>>

\* train_dataset = train_dataset.map(preprocess_for_model, ...)
MapTrainPreprocess ==
    /\ Run("train augmentations", "train preprocess")
    /\ train_dataset' = map(train_dataset, "preprocess_for_model")
    /\ UNCHANGED <<policy, layers, pipeline, test_dataset, layerVars>>

\* test_dataset = load_dataset(split="test")
LoadTest ==
    /\ Run("train preprocess", "load test")
    /\ test_dataset' = load_dataset("test")
    /\ UNCHANGED <<policy, layers, pipeline, train_dataset, layerVars>>

\* test_dataset = test_dataset.map(preprocess_for_model, ...)
MapTestPreprocess ==
    /\ Run("load test", "test preprocess")
    /\ test_dataset' = map(test_dataset, "preprocess_for_model")
    /\ UNCHANGED <<policy, layers, pipeline, train_dataset, layerVars>>

\* train_dataset = train_dataset.prefetch(AUTOTUNE)
PrefetchTrain ==
    /\ Run("test preprocess", "train prefetch")
    /\ train_dataset' = prefetch(train_dataset)
    /\ UNCHANGED <<policy, layers, pipeline, test_dataset, layerVars>>

\* test_dataset = test_dataset.prefetch(AUTOTUNE)
PrefetchTest ==
    /\ Run("train prefetch", "test prefetch")
    /\ test_dataset' = prefetch(test_dataset)
    /\ UNCHANGED <<policy, layers, pipeline, train_dataset, layerVars>>

\* model.fit(train_dataset, epochs=1, validation_data=test_dataset)
Fit ==
    /\ Run("test prefetch", "fit")
    /\ UNCHANGED <<policy, layers, pipeline, train_dataset, test_dataset, layerVars>>

\* the cells that show train_dataset, and so run its mapped functions
Iterating ==
    {"apply_rand_augment", "cut_mix_and_mix_up", "apply_pipeline",
     "apply_pipeline again", "train augmentations", "fit"}

\* the splits a cell iterates over: model.fit reads both datasets
Splits(c) == IF c = "fit" THEN {"train", "test"} ELSE {"train"}

\* the dataset of a split, and the elements the calls on it get
Dataset(split) == IF split = "test" THEN test_dataset ELSE train_dataset

ElementsOf(split) == IF split = "test" THEN TestElements ELSE Elements

\* the dataset passes its next element through its mapped functions
StartCall(w) ==
    /\ cell \in Iterating
    /\ calls[w].phase = "idle"
    /\ \E split \in Splits(cell) :
        calls' = [calls EXCEPT ![w] =
                    [fn |-> Mapped(Dataset(split))[Len(Mapped(Dataset(split)))],
                     split |-> split, at |-> 1,
                     phase |-> "evaluate", samples |-> ElementsOf(split)[w],
                     value |-> calls[w].value, draws |-> <<>>]]
    /\ UNCHANGED <<cell, policy, layers, pipeline, train_dataset, test_dataset, layerVars>>

\* the assignments a running call goes through
ProgramOf(w) == Program(Dataset(calls[w].split))

\* a call evaluates the right-hand side of its next assignment
Evaluate(w) ==
    /\ calls[w].phase = "evaluate"
    /\ \E d \in LayerDraws(pipeline, ProgramOf(w)[calls[w].at].layer,
                           Len(calls[w].samples.images)) :
        calls' = [calls EXCEPT
                    ![frame(w)].value =
                        evaluate(pipeline, ProgramOf(w)[calls[w].at],
                                 calls[w].samples, d),
                    ![w].draws = Append(@, d),
                    ![w].phase = "assign"]
    /\ UNCHANGED <<cell, policy, layers, pipeline, train_dataset, test_dataset, layerVars>>

\* a call assigns the value; after the last assignment of the last function
\* the element is ready
Assign(w) ==
    /\ calls[w].phase = "assign"
    /\ calls' = [calls EXCEPT
                    ![w].samples = assign(ProgramOf(w)[calls[w].at],
                                          calls[w].samples, calls[frame(w)].value),
                    ![w].at = @ + 1,
                    ![w].phase = IF calls[w].at < Len(ProgramOf(w))
                                 THEN "evaluate" ELSE "returned"]
    /\ UNCHANGED <<cell, policy, layers, pipeline, train_dataset, test_dataset, layerVars>>

NotebookNext ==
    \/ MapRandAugment
    \/ MapCutMixAndMixUp
    \/ GetStandardPolicy
    \/ FilterRotation
    \/ AddGridMask
    \/ BuildPipeline
    \/ MapPipeline
    \/ BuildSecondPipeline
    \/ MapSecondPipeline
    \/ MapTrainAugmentations
    \/ MapTrainPreprocess
    \/ LoadTest
    \/ MapTestPreprocess
    \/ PrefetchTrain
    \/ PrefetchTest
    \/ Fit
    \/ \E w \in Workers : StartCall(w) \/ Evaluate(w) \/ Assign(w)

(***************************************************************************)
(* The state machine: the guide's script constructs a layer, calls it on   *)
(* an input and shows the result; it may call the layer again or construct *)
(* another layer.                                                          *)
(***************************************************************************)
Init ==
    /\ ctor = Nothing
    /\ layer = Nothing
    /\ err = "none"
    /\ inputs = Nothing
    /\ outputs = Nothing
    /\ trace = <<>>
    /\ dispatch = <<>>
    /\ stream = <<>>
    /\ given = Nothing
    /\ NotebookIdle

\* layer = RandomBlueTint(...)
Construct ==
    /\ inputs = Nothing
    /\ \E args \in CtorArgs :
        /\ WellFormed(args)
        /\ ctor' = args
        /\ err' = init_error(args)
        /\ layer' = IF init_error(args) = "none" THEN RandomBlueTint(args) ELSE Nothing
        /\ UNCHANGED <<inputs, outputs, trace, dispatch, stream, given, notebookVars>>

\* augmented = layer(x)
Call ==
    /\ layer # Nothing
    /\ inputs = Nothing
    /\ \E x \in CallArgs :
        \E us \in [1..NumSamples(x) -> SampleDraws(layer)] :
            \E r \in {call(layer, x, us)} :
                /\ given' = x
                /\ inputs' = argument_after_call(x, r)
                /\ outputs' = r.out
                /\ err' = r.err
                /\ trace' = r.trace
                /\ dispatch' = r.dispatch
                /\ stream' = IF r.trace = <<>> THEN <<>> ELSE us
                /\ layer' = after_call(layer, x)
                /\ UNCHANGED <<ctor, notebookVars>>

\* imshow(augmented) / print(augmented): the cell ends, the result is dropped
Show ==
    /\ inputs # Nothing
    /\ inputs' = Nothing
    /\ outputs' = Nothing
    /\ err' = "none"
    /\ trace' = <<>>
    /\ dispatch' = <<>>
    /\ stream' = <<>>
    /\ given' = Nothing
    /\ UNCHANGED <<ctor, layer, notebookVars>>

Next == Construct \/ Call \/ Show

Spec == Init /\ [][Next]_vars

\* the notebook's cells in their order, with the calls of the mapped functions
Notebook == Init /\ [][NotebookNext]_vars


(***************************************************************************)
(* Properties.                                                             *)
(***************************************************************************)
Called == inputs # Nothing

Returned == Called /\ outputs # Nothing

\* the image fields of a batch call differ from a target field in their
\* leading dimension
Inconsistent(x) ==
    /\ x.rank = 4
    /\ \/ x.labels # None /\ Len(x.labels) # Len(x.images)
       \/ x.bounding_boxes # None /\ Len(x.bounding_boxes) # Len(x.images)

\* the latest call got as far as the per-sample methods of the layer
Augmenting ==
    /\ Called
    /\ ~Inconsistent(inputs)
    /\ inputs.rank = 3 \/ ~layer.auto_vectorize \/ layer.class # UnVectorizable

\* the fields of an argument or result as sequences with one element per sample
ImagesOf(arg) == IF arg.rank = 3 THEN <<arg.images>> ELSE arg.images

LabelsOf(arg) == IF arg.rank = 3 THEN <<arg.labels>> ELSE arg.labels

BoxesOf(arg) == IF arg.rank = 3 THEN <<arg.bounding_boxes>> ELSE arg.bounding_boxes

\* the factor drawn for sample i of the latest call
DrawOf(i) == IF trace[i].drawn = <<>> THEN None ELSE trace[i].drawn[1]

DrawsOfCall == [i \in 1..Len(trace) |-> DrawOf(i)]

\* the transform of input image i under the transformation drawn for it
ExpectedImage(i) ==
    augment_image(layer, ImagesOf(inputs)[i], trace[i].transformation, DrawOf(i))

\* C1: a call preserves the batching of its input: an unbatched sample (rank
\* 3) comes back unbatched, with the shape of the input and no added axis; a
\* batch of N samples comes back as a batch of N samples whose element i is
\* the transform of input element i.
C1_BatchingPreserved ==
    Returned =>
        /\ outputs.rank = inputs.rank
        /\ inputs.rank = 3 =>
            /\ outputs.images = ExpectedImage(1)
            /\ Shape(outputs.images) = Shape(inputs.images)
        /\ inputs.rank = 4 =>
            /\ Len(outputs.images) = Len(inputs.images)
            /\ \A i \in 1..Len(inputs.images) :
                /\ outputs.images[i] = ExpectedImage(i)
                /\ Shape(outputs.images[i]) = Shape(inputs.images[i])

C1_Witness ==
    /\ Returned
    /\ inputs.rank = 4
    /\ Len(outputs.images) = 3
    /\ outputs.images[1] # outputs.images[2]
    /\ outputs.images[1] # inputs.images[1]

\* does every call of the layer draw the same factor?
Deterministic(l) == l.class \in NoFactor \/ l.factor.kind = "constant"

\* the latest call made again on the path the layer did not take
OtherPath ==
    batched_return(inputs,
                   IF layer.auto_vectorize
                   THEN map_fn(layer, inputs, DrawsOfCall)
                   ELSE vectorized_map(layer, inputs, DrawsOfCall))

NonDegenerate(value_range) == value_range[1] < value_range[2]

\* are all values of the image within [low, high]?
InRange(image, value_range) ==
    \A h \in 1..Height(image) : \A w \in 1..Width(image) : \A c \in 1..Channels(image) :
        /\ RLe(R(value_range[1]), image[h][w][c])
        /\ RLe(image[h][w][c], R(value_range[2]))

\* C3: value-range rescaling round-trips: for a declared range with
\* low < high and an image with values in it, rescaling to (0, 255) and back
\* gives the image again; so a layer that drew the shift 0 returns its
\* input.
C3_RoundTrip ==
    (Called /\ layer.class = WithValueRange /\ NonDegenerate(layer.value_range)) =>
        \A i \in 1..Len(ImagesOf(inputs)) :
            InRange(ImagesOf(inputs)[i], layer.value_range) =>
                /\ from_canonical(to_canonical(ImagesOf(inputs)[i], layer.value_range),
                                  layer.value_range) = ImagesOf(inputs)[i]
                /\ (Returned /\ trace[i].transformation = R(0)) =>
                        ImagesOf(outputs)[i] = ImagesOf(inputs)[i]

C3_Witness ==
    /\ Returned
    /\ layer.class = WithValueRange
    /\ layer.value_range = <<-1, 1>>
    /\ inputs.rank = 4
    /\ Len(inputs.images) = 3
    /\ \A i \in 1..3 : InRange(inputs.images[i], layer.value_range)
    /\ \E i \in 1..3 : inputs.images[i][1][1][1] = R(-1)
    /\ \E i \in 1..3 : RLt(R(0), inputs.images[i][1][1][1])
    /\ \A i \in 1..3 : trace[i].transformation = R(0)

\* is the factor argument a tuple of two identical floats?
EqualTuple(f) == f # Nothing /\ f.form = "tuple" /\ f.lower = f.upper

\* C4: a factor given as a tuple of two identical floats (c, c) is accepted
\* and makes a constant sampler: every factor drawn, in every call, is c.
C4_ConstantSampler ==
    (ctor # Nothing /\ EqualTuple(ctor.factor)) =>
        /\ layer # Nothing
        /\ FactorValues(layer.factor) = {ctor.factor.lower}
        /\ \A i \in 1..Len(trace) :
            /\ trace[i].drawn = <<ctor.factor.lower>>
            /\ HasTransformation(layer) =>
                   trace[i].transformation = RMul(ctor.factor.lower, R(255))

C4_Witness ==
    /\ Called
    /\ EqualTuple(ctor.factor)
    /\ ctor.factor.lower = Rat(3, 5)
    /\ Len(trace) = 3
    /\ \A i \in 1..3 : trace[i].transformation = R(153)


\* C5 as stated: a factor tuple (lo, hi) with lo == hi is rejected with
\* ConfigurationError when the layer is constructed.
C5_EqualTupleRejected ==
    (ctor # Nothing /\ EqualTuple(ctor.factor)) =>
        (layer = Nothing /\ err = "ConfigurationError")

\* C5, amended: a factor tuple (lo, hi) with lo == hi is accepted when the
\* layer is constructed, before any sample is processed: no error is raised
\* and the layer's sampler is the constant sampler of lo.
C5_EqualTupleAccepted ==
    (ctor # Nothing /\ EqualTuple(ctor.factor)) =>
        /\ layer # Nothing
        /\ layer.factor = ConstantFactorSampler(ctor.factor.lower)
        /\ err # "ConfigurationError"

C5_Witness ==
    /\ ctor # Nothing
    /\ EqualTuple(ctor.factor)
    /\ layer # Nothing
    /\ ~Called

PlainTint(l) == l.class # WithValueRange \/ l.value_range = CanonicalRange

\* the shift the layer added to sample i of the latest call
ShiftOf(i) ==
    CASE layer.class \in NoFactor -> R(100)
      [] layer.class = WithFactor -> RMul(DrawOf(i), R(255))
      [] OTHER -> trace[i].transformation

\* C7: for a batch of 3 samples of shape (4, 4, 3) and the transform "add k
\* to the last channel, clip to [0, 255]", the output is a batch of 3 images
\* of shape (4, 4, 3) whose channel 2 (the last) is min(original + k, 255)
\* everywhere.
C7_Scenario ==
    ( /\ Returned
      /\ inputs.rank = 4
      /\ Len(inputs.images) = 3
      /\ \A i \in 1..3 : Shape(inputs.images[i]) = <<4, 4, 3>>
      /\ PlainTint(layer) ) =>
        /\ Len(outputs.images) = 3
        /\ \A i \in 1..3 :
            /\ Shape(outputs.images[i]) = <<4, 4, 3>>
            /\ \A h \in 1..4 : \A w \in 1..4 :
                outputs.images[i][h][w][3] =
                    RMin(RAdd(inputs.images[i][h][w][3], ShiftOf(i)), R(255))

C7_Witness ==
    /\ Returned
    /\ inputs.rank = 4
    /\ Len(inputs.images) = 3
    /\ \A i \in 1..3 : Shape(inputs.images[i]) = <<4, 4, 3>>
    /\ PlainTint(layer)
    /\ \E i \in 1..3 : \E h \in 1..4 : \E w \in 1..4 :
        /\ outputs.images[i][h][w][3] = R(255)
        /\ inputs.images[i][h][w][3] # R(255)
    /\ \E i \in 1..3 : \E h \in 1..4 : \E w \in 1..4 :
        /\ outputs.images[i][h][w][3] # R(255)
        /\ outputs.images[i][h][w][3] # inputs.images[i][h][w][3]

\* C8: the tint changes only the last channel: in every returned image the
\* channels before the last are those of the input, in the same order (for
\* the class with value_range: when the declared range has low < high).
C8_OtherChannelsUnchanged ==
    (Returned /\ (layer.class = WithValueRange => NonDegenerate(layer.value_range))) =>
        \A i \in 1..Len(ImagesOf(inputs)) :
            LET in  == ImagesOf(inputs)[i]
                out == ImagesOf(outputs)[i]
            IN  /\ Shape(out) = Shape(in)
                /\ \A h \in 1..Height(in) : \A w \in 1..Width(in) :
                    \A c \in 1..(Channels(in) - 1) : out[h][w][c] = in[h][w][c]

C8_Witness ==
    /\ Returned
    /\ inputs.rank = 3
    /\ Channels(inputs.images) = 3
    /\ inputs.images[1][1][1] # inputs.images[1][1][2]
    /\ inputs.images[1][1][2] # inputs.images[1][1][3]
    /\ outputs.images[1][1][3] # inputs.images[1][1][3]
    /\ outputs.images[1][1][1] = inputs.images[1][1][1]

\* C9: in a call of a layer with get_random_transformation, one
\* transformation is drawn for each sample and that value is the one handed
\* to augment_image, augment_label and augment_bounding_boxes of the sample:
\* the image and the targets of a sample are transformed with the same value.
C9_OneTransformationPerSample ==
    (Augmenting /\ HasTransformation(layer)) =>
        /\ Len(trace) = NumSamples(inputs)
        /\ \A i \in 1..Len(trace) :
            /\ Len(trace[i].drawn) = 1
            /\ trace[i].transformation = RMul(trace[i].drawn[1], R(255))
            /\ trace[i].image = trace[i].transformation
            /\ inputs.labels # None => trace[i].labels = trace[i].transformation
            /\ inputs.bounding_boxes # None =>
                   trace[i].bounding_boxes = trace[i].transformation
            /\ (Returned /\ inputs.labels # None) =>
                   LabelsOf(outputs)[i] =
                       augment_label(layer, LabelsOf(inputs)[i], trace[i].transformation)
            /\ Returned => ImagesOf(outputs)[i] = ExpectedImage(i)

C9_Witness ==
    /\ Returned
    /\ HasTransformation(layer)
    /\ inputs.rank = 4
    /\ inputs.labels # None
    /\ inputs.bounding_boxes # None
    /\ Len(trace) = 3
    /\ trace[1].transformation # trace[2].transformation
    /\ trace[1].labels = trace[1].transformation
    /\ trace[2].bounding_boxes = trace[2].transformation
    /\ outputs.labels[1] # outputs.labels[2]

C13_ShapeMismatch ==
    Called =>
        /\ Inconsistent(inputs) =>
              /\ err = "ShapeMismatchError"
              /\ outputs = Nothing
              /\ trace = <<>>
              /\ dispatch = <<>>
        /\ ~Inconsistent(inputs) => err # "ShapeMismatchError"

C13_Witness ==
    /\ Called
    /\ Inconsistent(inputs)
    /\ Len(inputs.images) = 3
    /\ Len(inputs.labels) = 2
    /\ err = "ShapeMismatchError"

\* the values a layer with a constant sampler draws for the latest input
ConstantDraws ==
    [i \in 1..NumSamples(inputs) |->
        CHOOSE u \in SampleDraws(RandomBlueTint(ctor)) : TRUE]

\* C14: a call does not depend on the calls before it: after any number of
\* calls the layer still has the configuration its constructor stored (class,
\* value range, sampler, auto_vectorize), and a layer with a constant sampler
\* returns for an input what a newly constructed layer returns for it.
C14_Stateless ==
    /\ layer # Nothing => layer = RandomBlueTint(ctor)
    /\ (Called /\ Deterministic(layer)) =>
          \E fresh \in {call(RandomBlueTint(ctor), inputs, ConstantDraws)} :
              /\ fresh.out = outputs
              /\ fresh.err = err

C14_Witness ==
    /\ Returned
    /\ layer.class = WithValueRange
    /\ layer.value_range = <<0, 1>>
    /\ layer.factor.kind = "constant"
    /\ inputs.rank = 4
    /\ Len(inputs.images) = 2
    /\ outputs.images # inputs.images

\* C16: for the class with value_range (low < high) and an input image whose
\* values all lie in the layer's value_range, the values of the output image
\* all lie in that value_range, whatever factor was drawn.
C16_OutputWithinValueRange ==
    (Returned /\ layer.class = WithValueRange /\ NonDegenerate(layer.value_range)) =>
        \A i \in 1..Len(ImagesOf(inputs)) :
            InRange(ImagesOf(inputs)[i], layer.value_range) =>
                InRange(ImagesOf(outputs)[i], layer.value_range)

\* the scenario of the guide: range (0, 1), input minimum 0 and maximum 1
C16_Witness ==
    /\ Returned
    /\ layer.class = WithValueRange
    /\ layer.value_range = <<0, 1>>
    /\ inputs.rank = 3
    /\ InRange(inputs.images, <<0, 1>>)
    /\ \E h \in 1..Height(inputs.images) : \E w \in 1..Width(inputs.images) :
         \E c \in 1..Channels(inputs.images) : inputs.images[h][w][c] = R(0)
    /\ \E h \in 1..Height(inputs.images) : \E w \in 1..Width(inputs.images) :
         \E c \in 1..Channels(inputs.images) : inputs.images[h][w][c] = R(1)
    /\ outputs.images # inputs.images
    /\ InRange(outputs.images, <<0, 1>>)

\* C17: for a dict with images and labels, the label of a sample comes back
\* as 2.0 when the sample's transformation is greater than 100 and unchanged
\* when it is 100 or less; the factor (0.6, 0.6) gives transformation 153 and
\* label 2.0.
C17_LabelThreshold ==
    (Returned /\ inputs.labels # None /\ HasTransformation(layer)) =>
        \A i \in 1..Len(trace) :
            /\ trace[i].transformation[1] > 100 * trace[i].transformation[2] =>
                  LabelsOf(outputs)[i] = <<R(2)>>
            /\ trace[i].transformation[1] <= 100 * trace[i].transformation[2] =>
                  LabelsOf(outputs)[i] = LabelsOf(inputs)[i]
            /\ (ctor.factor.form = "tuple" /\ ctor.factor.lower = Rat(3, 5)
                    /\ ctor.factor.upper = Rat(3, 5)) =>
                  /\ trace[i].transformation = R(153)
                  /\ LabelsOf(outputs)[i] = <<R(2)>>

\* a transformation of exactly 100 leaves the label as it was
C17_Witness ==
    /\ Returned
    /\ inputs.rank = 3
    /\ inputs.labels # None
    /\ HasTransformation(layer)
    /\ trace[1].transformation = R(100)
    /\ outputs.labels = inputs.labels
    /\ outputs.images # inputs.images

\* C21: every factor a layer draws lies within the bounds of its factor
\* argument: between a and b for a tuple (a, b), between 0.0 and f for a
\* single float f, and between min_value and max_value for a normal sampler;
\* for every sample of every call.
C21_FactorWithinBounds ==
    (Called /\ layer.class \notin NoFactor) =>
        \A i \in 1..Len(trace) :
            /\ Len(trace[i].drawn) = 1
            /\ ctor.factor.form = "tuple" =>
                  /\ RLe(ctor.factor.lower, trace[i].drawn[1])
                  /\ RLe(trace[i].drawn[1], ctor.factor.upper)
            /\ ctor.factor.form = "float" =>
                  /\ RLe(R(0), trace[i].drawn[1])
                  /\ RLe(trace[i].drawn[1], ctor.factor.upper)
            /\ ctor.factor.form = "sampler" =>
                  /\ RLe(ctor.factor.sampler.min_value, trace[i].drawn[1])
                  /\ RLe(trace[i].drawn[1], ctor.factor.sampler.max_value)

\* a normal sampler whose draw below min_value came out as min_value
C21_Witness ==
    /\ Called
    /\ layer.class \notin NoFactor
    /\ ctor.factor.form = "sampler"
    /\ Len(trace) = 2
    /\ trace[1].drawn = <<ctor.factor.sampler.min_value>>
    /\ trace[2].drawn # trace[1].drawn

\* the streams of random values a call of layer l on x may be given
Streams(l, x) == [1..NumSamples(x) -> SampleDraws(l)]

\* C22: the draws of a sampler that is not constant are independent and not
\* remembered: a layer that is ready to be called can, whatever was drawn in
\* the calls before, be called on a batch so that two samples get different
\* factors and come back as different images, and can be called on one
\* argument with two streams of draws that give different results; and in
\* every call the factor of sample i is the i-th value the random generator
\* gave that call.
C22_DrawsIndependent ==
    /\ (layer # Nothing /\ ~Called /\ ~Deterministic(layer)) =>
          /\ \E x \in CallArgs :
                /\ x.rank = 4
                /\ NumSamples(x) >= 2
                /\ \E us \in Streams(layer, x) :
                      /\ us[1] # us[2]
                      /\ \E r \in {call(layer, x, us)} :
                            /\ r.out # Nothing
                            /\ ImagesOf(r.out)[1] # ImagesOf(r.out)[2]
          /\ \E x \in CallArgs :
                /\ x.rank = 3
                /\ \E us, vs \in Streams(layer, x) :
                      /\ us # vs
                      /\ \E r \in {call(layer, x, us)} :
                            /\ r.out # Nothing
                            /\ r.out # call(layer, x, vs).out
    /\ (Called /\ layer.class \notin NoFactor) =>
          \A i \in 1..Len(trace) : trace[i].drawn = <<stream[i]>>

\* two samples that are the same image get different factors and come out
\* as different images
C22_Witness ==
    /\ Returned
    /\ ~Deterministic(layer)
    /\ inputs.rank = 4
    /\ Len(inputs.images) = 3
    /\ trace[1].drawn # trace[2].drawn
    /\ trace[2].drawn = trace[3].drawn
    /\ outputs.images[1] # outputs.images[2]

\* C23: for each sample of a call of the class with value_range the image
\* that comes back is the image rescaled from the layer's range to (0, 255),
\* then tinted there with 255 times the factor drawn for the sample, then
\* rescaled back to the layer's range; the batch is put together from these.
C23_StepOrder ==
    (Returned /\ layer.class = WithValueRange /\ NonDegenerate(layer.value_range)) =>
        \A i \in 1..Len(trace) :
            /\ trace[i].transformation = RMul(stream[i], R(255))
            /\ \E canonical \in {transform_value_range(ImagesOf(inputs)[i],
                                     layer.value_range, <<0, 255>>)} :
               \E tinted \in {blue_tint(canonical, trace[i].transformation)} :
                  ImagesOf(outputs)[i] =
                      transform_value_range(tinted, <<0, 255>>, layer.value_range)

C23_Witness ==
    /\ Returned
    /\ layer.class = WithValueRange
    /\ layer.value_range = <<-1, 1>>
    /\ inputs.rank = 4
    /\ Len(inputs.images) = 2
    /\ InRange(inputs.images[1], <<-1, 1>>)
    /\ trace[1].transformation # trace[2].transformation
    /\ outputs.images[1] # inputs.images[1]
    /\ InRange(outputs.images[1], <<-1, 1>>)

BlueValues(image) ==
    { image[h][w][Channels(image)] : h \in 1..Height(image), w \in 1..Width(image) }

\* C25: the tint of the classes without value_range gives last-channel
\* values within [0, 255], whatever the input and the shift, and does not
\* keep the range of the input: with factor (0.1, 0.1) the shift is 25.5 and
\* an image with values in [0, 1] comes back with last-channel values above
\* 1, between 25.5 and 26.5.
C25_TintWithoutValueRange ==
    (Returned /\ layer.class # WithValueRange) =>
        \A i \in 1..Len(ImagesOf(outputs)) :
            /\ \A v \in BlueValues(ImagesOf(outputs)[i]) :
                  RLe(R(0), v) /\ RLe(v, R(255))
            /\ (/\ layer.class \notin NoFactor
                /\ layer.factor = ConstantFactorSampler(Rat(1, 10))
                /\ InRange(ImagesOf(inputs)[i], <<0, 1>>)) =>
                  /\ ~InRange(ImagesOf(outputs)[i], <<0, 1>>)
                  /\ \A v \in BlueValues(ImagesOf(outputs)[i]) :
                        RLe(Rat(51, 2), v) /\ RLe(v, Rat(53, 2))

\* a batch of images with values in [0, 1], one of them with a last-channel
\* value of 1, tinted with shift 25.5: that value comes back as 26.5
C25_Witness ==
    /\ Returned
    /\ layer.class = WithTransformation
    /\ layer.factor = ConstantFactorSampler(Rat(1, 10))
    /\ inputs.rank = 4
    /\ \A i \in 1..Len(inputs.images) : InRange(inputs.images[i], <<0, 1>>)
    /\ trace[1].transformation = Rat(51, 2)
    /\ \E i \in 1..Len(inputs.images) :
          /\ R(1) \in BlueValues(inputs.images[i])
          /\ Rat(53, 2) \in BlueValues(outputs.images[i])
          /\ ~InRange(outputs.images[i], <<0, 1>>)

(***************************************************************************)
(* Properties of the notebook.                                             *)
(***************************************************************************)
\* the layers that have augmented a tensor, in order
LayersOn(t) == [k \in 1..Len(t.ops) |-> t.ops[k].layer]

Has(t, name) == \E k \in 1..Len(t.ops) : t.ops[k].layer = name

\* C15: whatever the interleaving of the parallel calls of a mapped function,
\* each call returns what it returns when it runs alone on its element with
\* the same random values.
C15_ParallelCallsIndependent ==
    \A w \in Workers :
        calls[w].phase = "returned" =>
            calls[w].samples =
                run_alone(pipeline, ProgramOf(w), ElementsOf(calls[w].split)[w],
                          calls[w].draws, 1)

\* one call has returned while the other is between evaluating and assigning
C15_Witness ==
    /\ cell = "apply_rand_augment"
    /\ calls[1].phase = "returned"
    /\ calls[2].phase = "assign"
    /\ calls[1].samples.images # Elements[1].images
    /\ calls[1].samples.labels = Elements[1].labels
    /\ calls[1].draws[1][1] # calls[2].draws[1][1]

\* C18: cut_mix_and_mix_up augments a batch by CutMix, by MixUp or by
\* neither, never by both.
C18_CutMixOrMixUpOrNeither ==
    \A w \in Workers :
        (calls[w].phase = "returned" /\ calls[w].fn = "cut_mix_and_mix_up") =>
            \A i \in 1..Len(calls[w].samples.images) :
                ~(Has(calls[w].samples.images[i], "CutMix")
                    /\ Has(calls[w].samples.images[i], "MixUp"))

\* the position in the standard policy of its k-th layer that is no
\* RandomRotation
Kept(k) ==
    CHOOSE i \in 1..Len(policy) :
        /\ policy[i] # RandomRotation
        /\ Cardinality({j \in 1..i : policy[j] # RandomRotation}) = k

\* C19: the layers list made from the standard policy by filtering out
\* RandomRotation and adding GridMask holds no RandomRotation, holds GridMask
\* and holds every other layer of the standard policy in its original
\* order; the pipeline made from it has these layers, and no image it
\* augments is augmented by RandomRotation.
C19_CustomPolicy ==
    /\ cell \notin {"imports", "apply_rand_augment", "cut_mix_and_mix_up",
                    "get_standard_policy", "filter"} =>
          /\ \A i \in 1..Len(layers) : layers[i] # RandomRotation
          /\ \E i \in 1..Len(layers) : layers[i] = GridMask
          /\ Len(layers) =
                Cardinality({j \in 1..Len(policy) : policy[j] # RandomRotation}) + 1
          /\ \A k \in 1..(Len(layers) - 1) : layers[k] = policy[Kept(k)]
    /\ cell \in {"pipeline", "apply_pipeline"} => pipeline.layers = layers
    /\ cell \in {"apply_pipeline", "apply_pipeline again"} =>
          \A w \in Workers :
              calls[w].phase = "returned" =>
                  \A i \in 1..Len(calls[w].samples.images) :
                      ~Has(calls[w].samples.images[i], RandomRotation)

C19_Witness ==
    /\ cell = "apply_pipeline"
    /\ policy = <<AutoContrast, RandomRotation, Equalization>>
    /\ layers = <<AutoContrast, Equalization, GridMask>>
    /\ calls[1].phase = "returned"
    /\ LayersOn(calls[1].samples.images[1]) = <<GridMask, AutoContrast, Equalization>>
    /\ LayersOn(calls[1].samples.images[2]) = <<Equalization, Equalization, GridMask>>

\* C20: a RandomAugmentationPipeline applies to every image exactly
\* augmentations_per_image layers, each one of its layers; the pipeline of
\* GridMask and Grayscale with augmentations_per_image = 1 applies to every
\* image exactly one of the two, never both and never neither.
C20_OneLayerPerAugmentation ==
    \A w \in Workers :
        (calls[w].phase = "returned" /\ calls[w].fn = "apply_pipeline") =>
            \A i \in 1..Len(calls[w].samples.images) :
                /\ Len(calls[w].samples.images[i].ops) = pipeline.augmentations_per_image
                /\ \A k \in 1..Len(calls[w].samples.images[i].ops) :
                      \E j \in 1..Len(pipeline.layers) :
                          calls[w].samples.images[i].ops[k].layer = pipeline.layers[j]
                /\ cell = "apply_pipeline again" =>
                      \/ LayersOn(calls[w].samples.images[i]) = <<GridMask>>
                      \/ LayersOn(calls[w].samples.images[i]) = <<Grayscale>>

C20_Witness ==
    /\ cell = "apply_pipeline again"
    /\ pipeline = [layers |-> <<GridMask, Grayscale>>, augmentations_per_image |-> 1]
    /\ calls[1].phase = "returned"
    /\ LayersOn(calls[1].samples.images[1]) = <<Grayscale>>
    /\ LayersOn(calls[1].samples.images[2]) = <<GridMask>>

\* the element a call was started on
ElementOf(w) == ElementsOf(calls[w].split)[w]

\* C26: apply_rand_augment and apply_pipeline replace the images of the
\* dictionary only: what they return has the labels of the batch they were
\* given and the same keys, for every batch; in the training pipeline the
\* labels are still those of the batch when apply_rand_augment has returned
\* and cut_mix_and_mix_up is about to start.
C26_OnlyImagesReplaced ==
    \A w \in Workers :
        /\ (calls[w].phase = "returned"
              /\ calls[w].fn \in {"apply_rand_augment", "apply_pipeline"}) =>
                /\ calls[w].samples.labels = ElementOf(w).labels
                /\ DOMAIN calls[w].samples = DOMAIN ElementOf(w)
        /\ (calls[w].phase = "evaluate"
              /\ calls[w].at = Len(apply_rand_augment) + 1
              /\ Mapped(Dataset(calls[w].split))[1] = "apply_rand_augment") =>
                /\ calls[w].samples.labels = ElementOf(w).labels
                /\ DOMAIN calls[w].samples = DOMAIN ElementOf(w)

\* both functions have returned batches with new images and the old labels
C26_Witness ==
    /\ cell = "apply_pipeline"
    /\ calls[1].phase = "returned"
    /\ calls[1].fn = "apply_pipeline"
    /\ calls[1].samples.images # Elements[1].images
    /\ calls[1].samples.labels = Elements[1].labels
    /\ DOMAIN calls[1].samples = {"images", "labels"}
    /\ calls[2].phase = "returned"

\* stage a comes before stage b wherever both are stages of the dataset
Precedes(dataset, a, b) ==
    \A i, j \in 1..Len(dataset) : (dataset[i] = a /\ dataset[j] = b) => i < j

\* the stages of the training pipeline
TrainingStages ==
    <<"shuffle", "prepare", "batch", "apply_rand_augment", "cut_mix_and_mix_up",
      "preprocess_for_model", "prefetch">>

\* C27: the dataset the model is trained on has the stages shuffle, prepare,
\* batch, apply_rand_augment, cut_mix_and_mix_up, preprocess_for_model and
\* prefetch, in this order; whenever cut_mix_and_mix_up is a stage of
\* train_dataset, prepare and batch are stages before it; the assignment
\* that makes the tuple is the last a training batch goes through, and the
\* tuple holds images augmented by RandAugment, then CutMix, then MixUp, and
\* labels mixed by CutMix, then MixUp.
C27_TrainingStageOrder ==
    /\ cell = "fit" => train_dataset = TrainingStages
    /\ \A k \in 1..Len(train_dataset) :
          train_dataset[k] = "cut_mix_and_mix_up" =>
              /\ \E i \in 1..(k - 1) : train_dataset[i] = "prepare"
              /\ \E i \in 1..(k - 1) : train_dataset[i] = "batch"
              /\ Precedes(train_dataset, "prepare", "batch")
    /\ \A k \in 1..Len(Program(train_dataset)) :
          Program(train_dataset)[k].target = "tuple" => k = Len(Program(train_dataset))
    /\ \A w \in Workers :
          (calls[w].phase = "returned" /\ calls[w].split = "train"
              /\ calls[w].fn = "preprocess_for_model") =>
                /\ Len(calls[w].samples) = 2
                /\ \A i \in 1..Len(calls[w].samples[1]) :
                      /\ calls[w].samples[1][i].id = ElementOf(w).images[i].id
                      /\ LayersOn(calls[w].samples[1][i]) =
                            <<"RandAugment", "CutMix", "MixUp">>
                /\ \A i \in 1..Len(calls[w].samples[2]) :
                      /\ calls[w].samples[2][i].id = ElementOf(w).labels[i].id
                      /\ LayersOn(calls[w].samples[2][i]) = <<"CutMix", "MixUp">>

\* a training batch has gone through all the stages and is a tuple
C27_Witness ==
    /\ cell = "fit"
    /\ train_dataset = TrainingStages
    /\ calls[1].phase = "returned"
    /\ calls[1].split = "train"
    /\ Len(calls[1].samples) = 2
    /\ LayersOn(calls[1].samples[1][2]) = <<"RandAugment", "CutMix", "MixUp">>
    /\ calls[1].samples[1][1].ops[1].draw # calls[1].samples[1][2].ops[1].draw

\* the stages of the test pipeline
TestStages == <<"prepare", "batch", "preprocess_for_model", "prefetch">>

\* C28: test_dataset never has a shuffle stage nor an augmenting function
\* among its stages; the dataset the model is validated on has the stages
\* prepare, batch, preprocess_for_model and prefetch; and every test batch
\* comes out as the tuple of the images and the one-hot labels that prepare
\* and batch made, with nothing applied to them.
C28_TestNotAugmented ==
    /\ \A k \in 1..Len(test_dataset) :
          /\ test_dataset[k] \notin
                {"shuffle", "apply_rand_augment", "cut_mix_and_mix_up", "apply_pipeline"}
          /\ test_dataset[k] = TestStages[k]
    /\ cell = "fit" => test_dataset = TestStages
    /\ \A w \in Workers :
          calls[w].split = "test" =>
              /\ cell = "fit"
              /\ calls[w].phase = "returned" =>
                    calls[w].samples = <<TestElements[w].images, TestElements[w].labels>>

\* a test batch has come out while a training batch has come out augmented
C28_Witness ==
    /\ cell = "fit"
    /\ calls[1].phase = "returned"
    /\ calls[1].split = "train"
    /\ calls[2].phase = "returned"
    /\ calls[2].split = "test"
    /\ calls[2].samples[1][1] = Tensor(6)
    /\ calls[2].samples[2][1] = Tensor(6)
    /\ calls[1].samples[1][1] # Tensor(1)

====
